---- MODULE Spec2Model ----
(***************************************************************************)
(* Model of src/server.py: module start-up (API keys, LLM, MongoDB vector  *)
(* store) and the /generate-prompt handler with its RAG branch, the        *)
(* bounded wait on the retrieval worker and the direct-generation          *)
(* fallback.  Text is modelled as a sequence of tokens.                    *)
(***************************************************************************)
EXTENDS Integers, Sequences, FiniteSets, TLC

(***************************************************************************)
(* Bounds of the model and program constants                               *)
(***************************************************************************)
MaxContentLen == 2      \* longest language-model reply, in tokens
MaxDocCount == 1        \* largest collection size seen by count_documents
MaxClock == 2           \* last instant of wall-clock time the model follows
K == 3                  \* search_kwargs={"k": 3}

None == "None"
Chars == {" ", "x"}     \* a whitespace token and a visible token
Passages == {<<"p1">>, <<"p2">>}

RECURSIVE SeqsUpTo(_, _)
SeqsUpTo(S, n) ==
    IF n = 0 THEN {<<>>}
    ELSE LET shorter == SeqsUpTo(S, n - 1)
         IN  shorter \cup {Append(s, x) : s \in shorter, x \in S}

\* Replies the language model can give (response.content)
LLMOutputs == SeqsUpTo(Chars, MaxContentLen)

\* Lists retriever.invoke can return: at most k documents, possibly none
DocLists == SeqsUpTo({[page_content |-> p] : p \in Passages}, K)

KeyValues == {None, "", "sk"}          \* os.getenv: unset, empty, set
GoogleKeyValues == {None, "gk"}

Truthy(v) == v \notin {None, ""}

(***************************************************************************)
(* Requests                                                                *)
(***************************************************************************)
DefaultQuestion == <<"A serene landscape at sunset">>
AbsentQuestion == [kind |-> "absent", val |-> <<>>]
Questions == {AbsentQuestion,
              [kind |-> "str", val |-> <<"q1">>],
              [kind |-> "num", val |-> <<>>]}
Instructions == {<<>>, <<"I">>}

NoBody == [json |-> FALSE, system_instruction |-> <<>>, user_question |-> AbsentQuestion]
Requests ==
    {NoBody} \cup
    [json : {TRUE}, system_instruction : Instructions, user_question : Questions]

\* data.get('user_question', 'A serene landscape at sunset')
GetUserQuestion(data) ==
    IF data.user_question.kind = "absent"
    THEN [kind |-> "str", val |-> DefaultQuestion]
    ELSE data.user_question

(***************************************************************************)
(* Responses                                                               *)
(***************************************************************************)
NoResponse == [status |-> 0, success |-> FALSE, prompt |-> <<>>, error |-> ""]
ErrorResponse(code, msg) ==
    [status |-> code, success |-> FALSE, prompt |-> <<>>, error |-> msg]
SuccessResponse(p) ==
    [status |-> 200, success |-> TRUE, prompt |-> p, error |-> ""]

(***************************************************************************)
(* Text helpers                                                            *)
(***************************************************************************)
RECURSIVE LStrip(_)
LStrip(s) == IF s # <<>> /\ Head(s) = " " THEN LStrip(Tail(s)) ELSE s

RECURSIVE RStrip(_)
RStrip(s) ==
    IF s # <<>> /\ s[Len(s)] = " " THEN RStrip(SubSeq(s, 1, Len(s) - 1)) ELSE s

\* str.strip()
Strip(s) == RStrip(LStrip(s))

\* sep.join(parts)
RECURSIVE Join(_, _)
Join(parts, sep) ==
    IF parts = <<>> THEN <<>>
    ELSE IF Len(parts) = 1 THEN parts[1]
    ELSE parts[1] \o sep \o Join(Tail(parts), sep)

PageContents(ds) == [i \in 1..Len(ds) |-> ds[i].page_content]

\* Variant: the passages are joined last-ranked first
ContextReversed(ds) ==
    Join([i \in 1..Len(ds) |-> ds[Len(ds) + 1 - i].page_content], <<"\n\n">>)

\* context = "\n\n".join([doc.page_content for doc in docs])
Context(ds) == Join(PageContents(ds), <<"\n\n">>)

ExtractSystem == <<"Extract: condition, mechanism keywords, clinical keywords">>

\* construction_prompt with the retrieved context and the user request
ConstructionPrompt(context, question) ==
    <<"Retrieved High-Yield Medical Context:">> \o context
        \o <<"User Request:">> \o question
        \o <<"Return a complete structured image generation prompt">>

\* f"Create a detailed medical illustration prompt for: {user_question}"
DirectMessage(question) ==
    <<"Create a detailed medical illustration prompt for:">> \o question


(***************************************************************************)
(* State                                                                   *)
(***************************************************************************)
VARIABLES
    started,            \* the module body has run
    openai_api_key,     \* module level: os.getenv('OPENAI_API_KEY')
    llm,                \* module level: ChatOpenAI client or None
    vectorstore,        \* module level
    retriever,          \* module level
    mongo_client,       \* module level
    google_api_key,     \* module level: os.getenv('GOOGLE_GENERATIVE_AI_API_KEY')
    gemini_client,      \* module level: genai.Client or None
    doc_count,          \* module level: count_documents({}) at start-up, -1 if never assigned
    init_raised,        \* the MongoDB initialization try block raised
    health_status,      \* body of the last /health response
    threads,            \* concurrent generate_prompt invocations, one record each
    img,                \* concurrent generate_image invocations, one record each
    now,                \* wall clock, in half seconds
    files,              \* generated_images/: file name -> the request whose image it holds
    pc,                 \* position of the generate_prompt handler
    data,               \* request.get_json()
    system_instruction, \* handler local
    user_question,      \* handler local
    retrieval_query,    \* handler local
    future,             \* state of the retrieve_docs worker
    future_value,       \* documents the worker returned
    docs,               \* handler local
    exc,                \* exception travelling out of the with block
    generated_prompt,   \* handler local
    response,           \* what the caller received
    calls,              \* collaborator calls of this invocation, in order
    outcome,            \* per call site: how the call ended for the handler
    content             \* per call site: the reply the call returned

moduleVars == <<started, openai_api_key, llm, vectorstore, retriever, mongo_client>>
requestVars == <<pc, data, system_instruction, user_question, retrieval_query,
                 future, future_value, docs, exc, generated_prompt, response,
                 calls, outcome, content>>
sideVars == <<threads, img, now, files>>
vars == <<started, openai_api_key, llm, vectorstore, retriever, mongo_client,
          google_api_key, gemini_client, doc_count, init_raised, health_status,
          threads, img, now, files,
          pc, data, system_instruction, user_question, retrieval_query,
          future, future_value, docs, exc, generated_prompt, response,
          calls, outcome, content>>

Sites == {"refine", "retrieve", "rag", "fallback", "direct"}
SynthesisDirectSites == {"fallback", "direct"}

Call(site, system, input) == [site |-> site, system |-> system, input |-> input]

NoOutcome == [s \in Sites |-> "none"]
NoContent == [s \in Sites |-> <<>>]

\* Handler threads of the concurrency model
Threads == {"t1", "t2"}

\* A generate_prompt invocation that has not read its request yet
IdleThread ==
    [pc |-> "idle", data |-> NoBody, retrieval_query |-> <<>>,
     future |-> "none", future_value |-> <<>>, docs |-> <<>>, exc |-> "none",
     generated_prompt |-> <<>>, response |-> NoResponse,
     calls |-> <<>>, outcome |-> NoOutcome, content |-> NoContent]

\* Handler threads serving /generate-image
ImageThreads == {"i1", "i2"}

\* The wall clock counts half seconds.
\* datetime.now().strftime('%Y%m%d_%H%M%S') cuts it to whole seconds;
\* filename = f'image_{timestamp}.png'
TicksPerSecond == 2
Timestamp(clock) == clock \div TicksPerSecond
FileName(ts) == <<"image_", ts, ".png">>
FileNames == {FileName(Timestamp(c)) : c \in 0..MaxClock}
NoFile == "none"           \* no file of that name in generated_images/

NoImageResponse ==
    [status |-> 0, success |-> FALSE, filename |-> <<>>, image_url |-> <<>>, error |-> ""]
ImageError(code, msg) ==
    [status |-> code, success |-> FALSE, filename |-> <<>>, image_url |-> <<>>, error |-> msg]
ImageSuccess(f) ==
    [status |-> 200, success |-> TRUE, filename |-> f,
     image_url |-> <<"http://localhost:5001/images/">> \o f, error |-> ""]

\* A generate_image invocation that has not read its request yet
IdleImage ==
    [pc |-> "idle", prompt |-> <<>>, api |-> "none", filename |-> <<>>,
     image_saved |-> FALSE, response |-> NoImageResponse]

\* No /health response yet
NoHealth ==
    [openai_configured |-> FALSE, google_configured |-> FALSE,
     mongodb_connected |-> FALSE, vectorstore_loaded |-> FALSE,
     retriever_ready |-> FALSE, vectorstore_doc_count |-> -2,
     gemini_client_ready |-> FALSE, rag_available |-> FALSE]

\* Handler locals before a request is read
FreshRequest ==
    /\ data = NoBody
    /\ system_instruction = <<>>
    /\ user_question = AbsentQuestion
    /\ retrieval_query = <<>>
    /\ future = "none"
    /\ future_value = <<>>
    /\ docs = <<>>
    /\ exc = "none"
    /\ generated_prompt = <<>>
    /\ response = NoResponse
    /\ calls = <<>>
    /\ outcome = NoOutcome
    /\ content = NoContent

Init ==
    /\ started = FALSE
    /\ openai_api_key = None
    /\ llm = None
    /\ vectorstore = None
    /\ retriever = None
    /\ mongo_client = None
    /\ google_api_key = None
    /\ gemini_client = None
    /\ doc_count = -1
    /\ init_raised = FALSE
    /\ health_status = NoHealth
    /\ threads = [t \in Threads |-> IdleThread]
    /\ img = [t \in ImageThreads |-> IdleImage]
    /\ now = 0
    /\ files = [f \in FileNames |-> NoFile]
    /\ pc = "boot"
    /\ FreshRequest

(***************************************************************************)
(* Module start-up                                                         *)
(***************************************************************************)
\* try/except around ChatOpenAI(...)
InitLLM(ok) == IF ok THEN "llm" ELSE None

\* Variant: the except block leaves the connected client in place
InitMongoKeepsClient(embOk, clientOk, pingOk, countOk, n, vsOk) ==
    IF ~embOk \/ ~clientOk
    THEN [vectorstore |-> None, retriever |-> None, mongo_client |-> None,
          doc_count |-> -1, raised |-> TRUE]
    ELSE IF ~pingOk \/ ~countOk
    THEN [vectorstore |-> None, retriever |-> None, mongo_client |-> "client",
          doc_count |-> -1, raised |-> TRUE]
    ELSE IF n = 0
    THEN [vectorstore |-> None, retriever |-> None, mongo_client |-> "client",
          doc_count |-> n, raised |-> FALSE]
    ELSE IF ~vsOk
    THEN [vectorstore |-> None, retriever |-> None, mongo_client |-> "client",
          doc_count |-> n, raised |-> TRUE]
    ELSE [vectorstore |-> "vectorstore", retriever |-> "retriever",
          mongo_client |-> "client", doc_count |-> n, raised |-> FALSE]

\* The try block that builds embeddings, MongoClient, collection, vector
\* store and retriever, and its except block that clears all three names.
\* n is what collection.count_documents({}) returns.
InitMongo(embOk, clientOk, pingOk, countOk, n, vsOk) ==
    IF ~(embOk /\ clientOk /\ pingOk /\ countOk)
    THEN [vectorstore |-> None, retriever |-> None, mongo_client |-> None,
          doc_count |-> -1, raised |-> TRUE]
    ELSE IF n = 0
    THEN [vectorstore |-> None, retriever |-> None, mongo_client |-> "client",
          doc_count |-> n, raised |-> FALSE]
    ELSE IF ~vsOk
    THEN [vectorstore |-> None, retriever |-> None, mongo_client |-> None,
          doc_count |-> n, raised |-> TRUE]
    ELSE [vectorstore |-> "vectorstore", retriever |-> "retriever",
          mongo_client |-> "client", doc_count |-> n, raised |-> FALSE]

\* gemini_client = genai.Client(api_key=google_api_key) if google_api_key
\* else None, inside try/except
InitGemini(key, ok) == IF Truthy(key) /\ ok THEN "gemini" ELSE None

\* Variant: the module body raises when the OpenAI key is not set
StartupRaisesOnMissingKey(key) == ~Truthy(key)

\* The API key check of the module body: a missing key is logged with
\* logger.error and nothing is raised.
StartupRaises(key) == FALSE

Startup ==
    /\ pc = "boot"
    /\ \E key \in KeyValues, llmOk \in BOOLEAN, embOk \in BOOLEAN,
          clientOk \in BOOLEAN, pingOk \in BOOLEAN, countOk \in BOOLEAN,
          n \in 0..MaxDocCount, vsOk \in BOOLEAN :
          LET m == InitMongo(embOk, clientOk, pingOk, countOk, n, vsOk)
          IN  /\ openai_api_key' = key
              /\ llm' = InitLLM(llmOk)
              /\ vectorstore' = m.vectorstore
              /\ retriever' = m.retriever
              /\ mongo_client' = m.mongo_client
              /\ doc_count' = m.doc_count
              /\ init_raised' = m.raised
              /\ started' = ~StartupRaises(key)
              /\ pc' = IF StartupRaises(key) THEN "crashed" ELSE "idle"
    /\ \E gkey \in GoogleKeyValues, geminiOk \in BOOLEAN :
          /\ google_api_key' = gkey
          /\ gemini_client' = InitGemini(gkey, geminiOk)
    /\ UNCHANGED <<sideVars, data, system_instruction, user_question, retrieval_query,
                   future, future_value, docs, exc, generated_prompt, response,
                   calls, outcome, content, health_status>>

(***************************************************************************)
(* /health                                                                 *)
(***************************************************************************)
\* What count_documents gives the health check: a count, or -1 when it raises
HealthCounts(client) ==
    IF client = None THEN {0} ELSE (0..MaxDocCount) \cup {-1}

\* The status dictionary of health()
HealthStatus(n) ==
    [openai_configured |-> openai_api_key # None,
     google_configured |-> google_api_key # None,
     mongodb_connected |-> mongo_client # None,
     vectorstore_loaded |-> vectorstore # None,
     retriever_ready |-> retriever # None,
     vectorstore_doc_count |-> n,
     gemini_client_ready |-> gemini_client # None,
     rag_available |-> (retriever # None /\ n > 0)]

\* GET /health: reads the module-level names and counts the collection
Health ==
    /\ pc = "idle"
    /\ \E n \in HealthCounts(mongo_client) : health_status' = HealthStatus(n)
    /\ UNCHANGED <<sideVars, started, openai_api_key, llm, vectorstore, retriever, mongo_client,
                   google_api_key, gemini_client, doc_count, init_raised,
                   pc, data, system_instruction, user_question, retrieval_query,
                   future, future_value, docs, exc, generated_prompt, response,
                   calls, outcome, content>>

(***************************************************************************)
(* generate_prompt: request checks                                         *)
(***************************************************************************)
\* Variant: the OpenAI key is checked before the instruction
PrecheckKeyFirst(d, key) ==
    IF ~d.json THEN "no_body"
    ELSE IF ~Truthy(key) THEN "no_key"
    ELSE IF d.system_instruction = <<>> THEN "no_instruction"
    ELSE IF GetUserQuestion(d).kind # "str" THEN "bad_question"
    ELSE "ok"

\* Variant: the check of the OpenAI key is left out
PrecheckNoKeyCheck(d, key) ==
    IF ~d.json THEN "no_body"
    ELSE IF d.system_instruction = <<>> THEN "no_instruction"
    ELSE IF GetUserQuestion(d).kind # "str" THEN "bad_question"
    ELSE "ok"

\* The checks between request.get_json() and the branch on retriever, in the
\* order the code makes them.
Precheck(d, key) ==
    IF ~d.json THEN "no_body"                          \* data.get on None raises
    ELSE IF d.system_instruction = <<>> THEN "no_instruction"
    ELSE IF ~Truthy(key) THEN "no_key"
    ELSE IF GetUserQuestion(d).kind # "str" THEN "bad_question"  \* user_question[:100] raises
    ELSE "ok"

PrecheckResponse(code) ==
    CASE code = "no_instruction" -> ErrorResponse(400, "System instruction is required")
      [] code = "no_key" -> ErrorResponse(500, "OpenAI API key not configured")
      [] OTHER -> ErrorResponse(500, "Error generating prompt")

\* Variant: the RAG branch is entered whatever retriever is
UseRagAlways(r) == TRUE

\* if retriever:
UseRag(r) == r # None

ReceiveRequest ==
    /\ pc = "idle"
    /\ \E d \in Requests :
        LET code == Precheck(d, openai_api_key)
        IN  /\ data' = d
            /\ IF code = "ok"
               THEN /\ system_instruction' = d.system_instruction
                    /\ user_question' = GetUserQuestion(d)
                    /\ response' = response
                    /\ pc' = IF UseRag(retriever) THEN "refine" ELSE "direct"
               ELSE /\ system_instruction' = IF d.json THEN d.system_instruction ELSE <<>>
                    /\ user_question' = IF d.json THEN GetUserQuestion(d) ELSE AbsentQuestion
                    /\ response' = PrecheckResponse(code)
                    /\ pc' = "done"
    /\ health_status' = NoHealth
    /\ UNCHANGED <<sideVars, started, openai_api_key, llm, vectorstore, retriever, mongo_client,
                   google_api_key, gemini_client, doc_count, init_raised, 
                   retrieval_query, future, future_value, docs, exc,
                   generated_prompt, calls, outcome, content>>


(***************************************************************************)
(* generate_prompt: collaborator calls                                     *)
(***************************************************************************)
\* llm.invoke(...): raises on a missing client or a provider failure,
\* otherwise returns a reply whose .content is text.
LLMResults(l) ==
    IF l = None
    THEN {[ok |-> FALSE, content |-> <<>>]}
    ELSE {[ok |-> FALSE, content |-> <<>>]}
            \cup {[ok |-> TRUE, content |-> c] : c \in LLMOutputs}

\* Variant: a failed refinement is ignored and retrieval goes ahead
RefineNextIgnoreFailure(ok) == "submit"

\* Where the handler continues after the refinement call
RefineNext(ok) == IF ok THEN "submit" ELSE "fallback"

\* Variant: the raw question is searched instead of the refined query
RetrieverInputRawQuestion(rq, uq) == uq

\* The query retrieve_docs hands to retriever.invoke
RetrieverInput(rq, uq) == rq

\* Variant: the `if docs` check is missing, an empty list counts as documents
ResultOutcomeNoEmptyCheck(fut, value) ==
    CASE fut = "returned" -> "docs"
      [] fut = "raised" -> "raised"
      [] OTHER -> "timeout"

\* future.result(timeout=20) and the check on the documents it returns
ResultOutcome(fut, value) ==
    CASE fut = "returned" /\ value # <<>> -> "docs"
      [] fut = "returned" /\ value = <<>> -> "empty"
      [] fut = "raised" -> "raised"
      [] OTHER -> "timeout"

\* The exception that leaves the with block for each outcome
RaisedFor(o) ==
    CASE o = "docs" -> "none"
      [] o = "empty" -> "ValueError"
      [] o = "raised" -> "RetrieverError"
      [] OTHER -> "TimeoutError"

\* ThreadPoolExecutor.__exit__ is shutdown(wait=True): it returns once the
\* worker thread has finished.
ShutdownReturns(fut) == fut # "running"

\* Variant: no inner except, a retrieval failure reaches the outer handler
ExitNextPropagate(e) == IF e = "none" THEN "rag" ELSE "error"

\* After the with block: on to the RAG prompt, or into except Exception
ExitNext(e) == IF e = "none" THEN "rag" ELSE "fallback"

\* Variant: the except block runs whether or not the RAG call succeeded
RagNextAlwaysFallback(ok) == "fallback"

\* Variant: the RAG call sits outside the try block, so its failure propagates
RagNextPropagate(ok) == IF ok THEN "respond" ELSE "error"

\* After the RAG synthesis call, which sits inside the same try block
RagNext(ok) == IF ok THEN "respond" ELSE "fallback"

\* Variant: a failed fallback call is attempted again
FallbackNextRetry(ok) == IF ok THEN "respond" ELSE "fallback"

\* After the synthesis call of the except block: a failure reaches the outer
\* except Exception
FallbackNext(ok) == IF ok THEN "respond" ELSE "error"

\* Variant: a failed direct call is swallowed and the handler answers anyway
DirectNextSwallow(ok) == "respond"

\* After the synthesis call of the else branch
DirectNext(ok) == IF ok THEN "respond" ELSE "error"

\* An exception no inner handler takes reaches the outer except Exception,
\* which returns the 500 error result and ends the handler.
Continue(next) == IF next = "error" THEN "done" ELSE next
Outcome500(next, r) ==
    IF next = "error" THEN ErrorResponse(500, "Error generating prompt") ELSE r

Refine ==
    /\ pc = "refine"
    /\ calls' = Append(calls, Call("refine", ExtractSystem, user_question.val))
    /\ \E r \in LLMResults(llm) :
        /\ outcome' = [outcome EXCEPT !["refine"] = IF r.ok THEN "ok" ELSE "fail"]
        /\ content' = [content EXCEPT !["refine"] = r.content]
        /\ retrieval_query' = IF r.ok THEN r.content ELSE retrieval_query
        /\ pc' = Continue(RefineNext(r.ok))
        /\ response' = Outcome500(RefineNext(r.ok), response)
    /\ UNCHANGED <<sideVars, started, openai_api_key, llm, vectorstore, retriever, mongo_client,
                   google_api_key, gemini_client, doc_count, init_raised, health_status,
                   data, system_instruction, user_question, future, future_value,
                   docs, exc, generated_prompt>>

\* executor.submit(retrieve_docs): the single worker starts retriever.invoke
Submit ==
    /\ pc = "submit"
    /\ future' = "running"
    /\ calls' = Append(calls,
                       Call("retrieve", <<>>, RetrieverInput(retrieval_query, user_question.val)))
    /\ pc' = "wait"
    /\ UNCHANGED <<sideVars, started, openai_api_key, llm, vectorstore, retriever, mongo_client,
                   google_api_key, gemini_client, doc_count, init_raised, health_status,
                   data, system_instruction, user_question, retrieval_query,
                   future_value, docs, exc, generated_prompt, response,
                   outcome, content>>

\* The worker thread: retriever.invoke returns a list of documents
WorkerReturns ==
    /\ future = "running"
    /\ \E ds \in DocLists : future_value' = ds
    /\ future' = "returned"
    /\ UNCHANGED <<sideVars, started, openai_api_key, llm, vectorstore, retriever, mongo_client,
                   google_api_key, gemini_client, doc_count, init_raised, health_status,
                   pc, data, system_instruction, user_question, retrieval_query,
                   docs, exc, generated_prompt, response, calls, outcome, content>>

\* The worker thread: retriever.invoke raises
WorkerRaises ==
    /\ future = "running"
    /\ future' = "raised"
    /\ UNCHANGED <<sideVars, started, openai_api_key, llm, vectorstore, retriever, mongo_client,
                   google_api_key, gemini_client, doc_count, init_raised, health_status,
                   pc, data, system_instruction, user_question, retrieval_query,
                   future_value, docs, exc, generated_prompt, response,
                   calls, outcome, content>>

\* future.result(timeout=20): the worker's result, its exception, or the
\* timeout when it is still running after 20 seconds
FutureResult ==
    /\ pc = "wait"
    /\ LET o == ResultOutcome(future, future_value)
       IN  /\ outcome' = [outcome EXCEPT !["retrieve"] = o]
           /\ docs' = IF future = "returned" THEN future_value ELSE docs
           /\ exc' = RaisedFor(o)
    /\ pc' = "exit"
    /\ UNCHANGED <<sideVars, started, openai_api_key, llm, vectorstore, retriever, mongo_client,
                   google_api_key, gemini_client, doc_count, init_raised, health_status,
                   data, system_instruction, user_question, retrieval_query,
                   future, future_value, generated_prompt, response, calls, content>>

\* Leaving `with ThreadPoolExecutor(max_workers=1) as executor:`
ExitExecutor ==
    /\ pc = "exit"
    /\ ShutdownReturns(future)
    /\ pc' = Continue(ExitNext(exc))
    /\ response' = Outcome500(ExitNext(exc), response)
    /\ UNCHANGED <<sideVars, started, openai_api_key, llm, vectorstore, retriever, mongo_client,
                   google_api_key, gemini_client, doc_count, init_raised, health_status,
                   data, system_instruction, user_question, retrieval_query,
                   future, future_value, docs, exc, generated_prompt,
                   calls, outcome, content>>

\* One synthesis call at `site` with user message `msg`; the handler
\* continues at onOk when llm.invoke returns and at onFail when it raises
Synthesize(site, msg, onOk, onFail) ==
    /\ calls' = Append(calls, Call(site, system_instruction, msg))
    /\ \E r \in LLMResults(llm) :
        LET next == IF r.ok THEN onOk ELSE onFail
        IN  /\ outcome' = [outcome EXCEPT ![site] = IF r.ok THEN "ok" ELSE "fail"]
            /\ content' = [content EXCEPT ![site] = r.content]
            /\ generated_prompt' = IF r.ok THEN Strip(r.content) ELSE generated_prompt
            /\ pc' = Continue(next)
            /\ response' = Outcome500(next, response)
    /\ UNCHANGED <<sideVars, started, openai_api_key, llm, vectorstore, retriever, mongo_client,
                   google_api_key, gemini_client, doc_count, init_raised, health_status,
                   data, system_instruction, user_question, retrieval_query,
                   future, future_value, docs, exc>>

\* Context assembly and the RAG synthesis call
RagSynthesis ==
    /\ pc = "rag"
    /\ Synthesize("rag", ConstructionPrompt(Context(docs), user_question.val),
                  RagNext(TRUE), RagNext(FALSE))

\* except Exception: fall back to direct generation
FallbackSynthesis ==
    /\ pc = "fallback"
    /\ Synthesize("fallback", DirectMessage(user_question.val),
                  FallbackNext(TRUE), FallbackNext(FALSE))

\* else: direct generation without retrieval
DirectSynthesis ==
    /\ pc = "direct"
    /\ Synthesize("direct", DirectMessage(user_question.val),
                  DirectNext(TRUE), DirectNext(FALSE))

\* return jsonify({'prompt': generated_prompt, 'success': True})
Respond ==
    /\ pc = "respond"
    /\ response' = SuccessResponse(generated_prompt)
    /\ pc' = "done"
    /\ UNCHANGED <<sideVars, started, openai_api_key, llm, vectorstore, retriever, mongo_client,
                   google_api_key, gemini_client, doc_count, init_raised, health_status,
                   data, system_instruction, user_question, retrieval_query,
                   future, future_value, docs, exc, generated_prompt,
                   calls, outcome, content>>

\* The handler has returned; the server waits for the next request
NextRequest ==
    /\ pc = "done"
    /\ pc' = "idle"
    /\ data' = NoBody
    /\ system_instruction' = <<>>
    /\ user_question' = AbsentQuestion
    /\ retrieval_query' = <<>>
    /\ future' = "none"
    /\ future_value' = <<>>
    /\ docs' = <<>>
    /\ exc' = "none"
    /\ generated_prompt' = <<>>
    /\ response' = NoResponse
    /\ calls' = <<>>
    /\ outcome' = NoOutcome
    /\ content' = NoContent
    /\ UNCHANGED <<sideVars, started, openai_api_key, llm, vectorstore, retriever, mongo_client,
                   google_api_key, gemini_client, doc_count, init_raised, health_status>>

HandlerStep ==
    \/ Refine
    \/ Submit
    \/ FutureResult
    \/ ExitExecutor
    \/ RagSynthesis
    \/ FallbackSynthesis
    \/ DirectSynthesis
    \/ Respond

Next ==
    \/ Startup
    \/ Health
    \/ ReceiveRequest
    \/ Refine
    \/ Submit
    \/ WorkerReturns
    \/ WorkerRaises
    \/ FutureResult
    \/ ExitExecutor
    \/ RagSynthesis
    \/ FallbackSynthesis
    \/ DirectSynthesis
    \/ Respond
    \/ NextRequest

Spec == Init /\ [][Next]_vars

\* The handler thread keeps running once a request is in: every llm.invoke
\* returns or raises (request_timeout=60) and future.result is bounded.  No
\* fairness is assumed of the retrieval backend, which may hang.
FairSpec == Spec /\ WF_vars(HandlerStep)

TypeOK ==
    /\ pc \in {"boot", "idle", "refine", "submit", "wait", "exit", "rag",
               "fallback", "direct", "respond", "done"}
    /\ future \in {"none", "running", "returned", "raised"}
    /\ exc \in {"none", "ValueError", "RetrieverError", "TimeoutError"}
    /\ data \in Requests
    /\ docs \in DocLists
    /\ Len(calls) <= 4


(***************************************************************************)
(* generate_prompt under Flask's threaded server: two invocations run the  *)
(* same handler code on their own locals and read the same module-level    *)
(* names.                                                                  *)
(***************************************************************************)
ConcRequests ==
    {[json |-> TRUE, system_instruction |-> <<"I">>, user_question |-> q]
        : q \in {AbsentQuestion, [kind |-> "str", val |-> <<"q1">>]}}
      \cup {[json |-> TRUE, system_instruction |-> <<>>, user_question |-> AbsentQuestion]}

ConcOutputs == {<<"x">>, <<" ">>}
ConcLLMResults(l) == {r \in LLMResults(l) : ~r.ok \/ r.content \in ConcOutputs}
ConcDocLists ==
    {<<>>, <<[page_content |-> <<"p1">>]>>,
     <<[page_content |-> <<"p2">>], [page_content |-> <<"p1">>]>>}

\* user_question local of a handler record
QuestionOf(h) == GetUserQuestion(h.data).val

SetThread(t, h) == threads' = [threads EXCEPT ![t] = h]

\* Variant: a retrieval that returned nothing switches RAG off for the
\* whole process
RetrieverDroppedOnEmpty(r, o) == IF o = "empty" THEN None ELSE r

\* Variant: a failed retrieval switches RAG off for the whole process
RetrieverDroppedOnFailure(r, o) == IF o \in {"raised", "timeout"} THEN None ELSE r

\* The module-level retriever after the handler has taken the retrieval
\* result: generate_prompt has no global statement and assigns none of the
\* module-level names, so the name keeps its value whatever the outcome o.
RetrieverAfterRequest(r, o) == r

threadFrame == <<started, openai_api_key, llm, vectorstore, mongo_client,
                 google_api_key, gemini_client, doc_count, init_raised,
                 health_status, img, now, files, requestVars>>

T_Receive(t) ==
    /\ started /\ pc = "idle"
    /\ threads[t].pc = "idle"
    /\ \E d \in ConcRequests :
        LET code == Precheck(d, openai_api_key)
        IN  SetThread(t, [threads[t] EXCEPT
                !.data = d,
                !.response = IF code = "ok" THEN @ ELSE PrecheckResponse(code),
                !.pc = IF code # "ok" THEN "done"
                       ELSE IF UseRag(retriever) THEN "refine" ELSE "direct"])
    /\ UNCHANGED <<threadFrame, retriever>>

T_Refine(t) ==
    /\ threads[t].pc = "refine"
    /\ \E r \in ConcLLMResults(llm) :
        SetThread(t, [threads[t] EXCEPT
            !.calls = Append(@, Call("refine", ExtractSystem, QuestionOf(threads[t]))),
            !.outcome["refine"] = IF r.ok THEN "ok" ELSE "fail",
            !.content["refine"] = r.content,
            !.retrieval_query = IF r.ok THEN r.content ELSE @,
            !.pc = Continue(RefineNext(r.ok)),
            !.response = Outcome500(RefineNext(r.ok), @)])
    /\ UNCHANGED <<threadFrame, retriever>>

T_Submit(t) ==
    /\ threads[t].pc = "submit"
    /\ SetThread(t, [threads[t] EXCEPT
            !.future = "running",
            !.calls = Append(@, Call("retrieve", <<>>,
                                     RetrieverInput(threads[t].retrieval_query,
                                                    QuestionOf(threads[t])))),
            !.pc = "wait"])
    /\ UNCHANGED <<threadFrame, retriever>>

T_WorkerReturns(t) ==
    /\ threads[t].future = "running"
    /\ \E ds \in ConcDocLists :
        SetThread(t, [threads[t] EXCEPT !.future = "returned", !.future_value = ds])
    /\ UNCHANGED <<threadFrame, retriever>>

T_WorkerRaises(t) ==
    /\ threads[t].future = "running"
    /\ SetThread(t, [threads[t] EXCEPT !.future = "raised"])
    /\ UNCHANGED <<threadFrame, retriever>>

T_FutureResult(t) ==
    /\ threads[t].pc = "wait"
    /\ LET h == threads[t]
           o == ResultOutcome(h.future, h.future_value)
       IN  /\ SetThread(t, [h EXCEPT
                    !.outcome["retrieve"] = o,
                    !.docs = IF h.future = "returned" THEN h.future_value ELSE @,
                    !.exc = RaisedFor(o),
                    !.pc = "exit"])
           /\ retriever' = RetrieverAfterRequest(retriever, o)
    /\ UNCHANGED threadFrame

T_ExitExecutor(t) ==
    /\ threads[t].pc = "exit"
    /\ ShutdownReturns(threads[t].future)
    /\ SetThread(t, [threads[t] EXCEPT
            !.pc = Continue(ExitNext(threads[t].exc)),
            !.response = Outcome500(ExitNext(threads[t].exc), @)])
    /\ UNCHANGED <<threadFrame, retriever>>

T_Synthesize(t, site, msg, onOk, onFail) ==
    /\ \E r \in ConcLLMResults(llm) :
        LET next == IF r.ok THEN onOk ELSE onFail
        IN  SetThread(t, [threads[t] EXCEPT
                !.calls = Append(@, Call(site, threads[t].data.system_instruction, msg)),
                !.outcome[site] = IF r.ok THEN "ok" ELSE "fail",
                !.content[site] = r.content,
                !.generated_prompt = IF r.ok THEN Strip(r.content) ELSE @,
                !.pc = Continue(next),
                !.response = Outcome500(next, @)])
    /\ UNCHANGED <<threadFrame, retriever>>

T_RagSynthesis(t) ==
    /\ threads[t].pc = "rag"
    /\ T_Synthesize(t, "rag",
                    ConstructionPrompt(Context(threads[t].docs), QuestionOf(threads[t])),
                    RagNext(TRUE), RagNext(FALSE))

T_FallbackSynthesis(t) ==
    /\ threads[t].pc = "fallback"
    /\ T_Synthesize(t, "fallback", DirectMessage(QuestionOf(threads[t])),
                    FallbackNext(TRUE), FallbackNext(FALSE))

T_DirectSynthesis(t) ==
    /\ threads[t].pc = "direct"
    /\ T_Synthesize(t, "direct", DirectMessage(QuestionOf(threads[t])),
                    DirectNext(TRUE), DirectNext(FALSE))

T_Respond(t) ==
    /\ threads[t].pc = "respond"
    /\ SetThread(t, [threads[t] EXCEPT
            !.response = SuccessResponse(threads[t].generated_prompt),
            !.pc = "done"])
    /\ UNCHANGED <<threadFrame, retriever>>

ThreadStep(t) ==
    \/ T_Receive(t)
    \/ T_Refine(t)
    \/ T_Submit(t)
    \/ T_WorkerReturns(t)
    \/ T_WorkerRaises(t)
    \/ T_FutureResult(t)
    \/ T_ExitExecutor(t)
    \/ T_RagSynthesis(t)
    \/ T_FallbackSynthesis(t)
    \/ T_DirectSynthesis(t)
    \/ T_Respond(t)

ConcNext ==
    \/ Startup
    \/ \E t \in Threads : ThreadStep(t)

ConcSpec == Init /\ [][ConcNext]_vars


(***************************************************************************)
(* generate_image, served by concurrent handler threads                    *)
(***************************************************************************)
\* request.get_json(): no JSON body, or a body whose prompt is empty or text
ImageRequests ==
    {[json |-> FALSE, prompt |-> <<>>]}
      \cup {[json |-> TRUE, prompt |-> p] : p \in {<<>>, <<"a">>, <<"b">>}}

\* The checks of generate_image before the Gemini call, in code order
ImagePrecheck(d, gkey, client) ==
    IF ~d.json THEN "no_body"                          \* data.get on None raises
    ELSE IF d.prompt = <<>> THEN "no_prompt"
    ELSE IF ~Truthy(gkey) THEN "no_key"
    ELSE IF client = None THEN "no_client"
    ELSE "ok"

ImagePrecheckResponse(code) ==
    CASE code = "no_prompt" -> ImageError(400, "Prompt is required")
      [] code = "no_key" -> ImageError(500, "Google Generative AI API key not configured")
      [] code = "no_client" -> ImageError(500, "Gemini client not initialized")
      [] OTHER -> ImageError(500, "Error generating image")

\* gemini_client.models.generate_content: raises, or returns a response
\* whose parts hold an image, hold only text, or cannot be walked
GeminiResults == {"raise", "image", "text_only", "malformed"}

SetImage(t, h) == img' = [img EXCEPT ![t] = h]

imageFrame == <<started, openai_api_key, llm, vectorstore, retriever, mongo_client,
                google_api_key, gemini_client, doc_count, init_raised,
                health_status, threads, requestVars>>

\* The wall clock advances
Tick ==
    /\ now < MaxClock
    /\ now' = now + 1
    /\ UNCHANGED <<imageFrame, img, files>>

I_Receive(t) ==
    /\ started /\ pc = "idle"
    /\ img[t].pc = "idle"
    /\ \E d \in ImageRequests :
        LET code == ImagePrecheck(d, google_api_key, gemini_client)
        IN  SetImage(t, [img[t] EXCEPT
                !.prompt = d.prompt,
                !.response = IF code = "ok" THEN @ ELSE ImagePrecheckResponse(code),
                !.pc = IF code = "ok" THEN "api" ELSE "done"])
    /\ UNCHANGED <<imageFrame, now, files>>

I_CallGemini(t) ==
    /\ img[t].pc = "api"
    /\ \E r \in GeminiResults :
        SetImage(t, [img[t] EXCEPT
            !.api = r,
            !.response = IF r = "raise" THEN ImageError(500, "Error generating image") ELSE @,
            !.pc = IF r = "raise" THEN "done" ELSE "stamp"])
    /\ UNCHANGED <<imageFrame, now, files>>

\* timestamp = datetime.now().strftime(...); filename = f'image_{timestamp}.png'
I_Timestamp(t) ==
    /\ img[t].pc = "stamp"
    /\ SetImage(t, [img[t] EXCEPT
            !.filename = FileName(Timestamp(now)),
            !.pc = "extract"])
    /\ UNCHANGED <<imageFrame, now, files>>

\* The loop over response.candidates[0].content.parts: image.save(filepath)
\* writes the file, replacing one of the same name
I_Extract(t) ==
    /\ img[t].pc = "extract"
    /\ \/ /\ img[t].api = "image"
          /\ files' = [files EXCEPT ![img[t].filename] = t]
          /\ SetImage(t, [img[t] EXCEPT !.image_saved = TRUE, !.pc = "respond"])
       \/ /\ img[t].api \in {"image", "malformed"}
          /\ SetImage(t, [img[t] EXCEPT
                !.response = ImageError(500, "Error processing Gemini response"),
                !.pc = "done"])
          /\ UNCHANGED files
       \/ /\ img[t].api = "text_only"
          /\ SetImage(t, [img[t] EXCEPT
                !.response = ImageError(500, "No image generated in response"),
                !.pc = "done"])
          /\ UNCHANGED files
    /\ UNCHANGED <<imageFrame, now>>

\* return jsonify({'image_url': local_url, 'filename': filename, 'success': True})
I_Respond(t) ==
    /\ img[t].pc = "respond"
    /\ SetImage(t, [img[t] EXCEPT
            !.response = ImageSuccess(img[t].filename),
            !.pc = "done"])
    /\ UNCHANGED <<imageFrame, now, files>>

ImageStep(t) ==
    \/ I_Receive(t)
    \/ I_CallGemini(t)
    \/ I_Timestamp(t)
    \/ I_Extract(t)
    \/ I_Respond(t)

ImageNext ==
    \/ Startup
    \/ Tick
    \/ \E t \in ImageThreads : ImageStep(t)

ImageSpec == Init /\ [][ImageNext]_vars


(***************************************************************************)
(* Properties of generate_prompt                                           *)
(***************************************************************************)
Invoked(site) == \E i \in 1..Len(calls) : calls[i].site = site
CallsAt(site) == {i \in 1..Len(calls) : calls[i].site = site}
Done == pc = "done"
Succeeded == Done /\ response.status = 200 /\ response.success
Errored == Done /\ ~response.success
SynthesisSites == {"rag", "fallback", "direct"}
ReturnedSites == {s \in SynthesisSites : outcome[s] = "ok"}

\* C1: an invocation that ends in success returns one prompt, and that
\* prompt is the stripped reply of exactly one synthesis call that returned:
\* either the RAG call or a direct call, never two of them and never none.
C1_OnePromptOnePath ==
    Succeeded =>
        /\ Cardinality(ReturnedSites) = 1
        /\ \A s \in ReturnedSites : response.prompt = Strip(content[s])
        /\ response.prompt = generated_prompt

C1_Witness ==
    /\ Succeeded
    /\ outcome["rag"] = "ok"
    /\ response.prompt # <<>>

\* C2: once the bounded wait on the retrieval worker has timed out, direct
\* synthesis is eventually invoked and the handler returns a response, even
\* if the retrieval call never returns.
C2_TimeoutLeadsToFallback ==
    (pc = "exit" /\ outcome["retrieve"] = "timeout")
        ~> (Done /\ Invoked("fallback"))

RagFailedAfterRetrieval ==
    /\ outcome["refine"] = "ok"
    /\ outcome["retrieve"] = "docs"
    /\ outcome["rag"] = "fail"

\* C3 as stated: when refinement and retrieval succeed and the RAG synthesis
\* call fails, direct synthesis is not invoked and the caller gets an error.
C3_NoFallbackAfterRagFailure ==
    RagFailedAfterRetrieval =>
        /\ ~Invoked("fallback")
        /\ ~Invoked("direct")
        /\ pc # "fallback"
        /\ (Done => ~response.success)

\* C3 amended: when refinement and retrieval succeed and the RAG synthesis
\* call fails, the handler falls back: the direct synthesis call of the
\* except block is invoked next, the caller gets success with that call's
\* stripped reply if it returns and an error result only if it fails too.
C3_FallbackAfterRagFailure ==
    RagFailedAfterRetrieval =>
        /\ pc = "fallback" \/ Invoked("fallback")
        /\ Done =>
            /\ response.success <=> outcome["fallback"] = "ok"
            /\ response.success => response.prompt = Strip(content["fallback"])

C3_Witness ==
    /\ RagFailedAfterRetrieval
    /\ Succeeded
    /\ outcome["fallback"] = "ok"


\* The request passed every check made before the branch on retriever
Admitted == started /\ pc # "idle" /\ Precheck(data, openai_api_key) = "ok"
RawQuestion == GetUserQuestion(data).val

\* q occurs in msg as a contiguous run of tokens
Embeds(msg, q) ==
    \E i \in 0..(Len(msg) - Len(q)) : SubSeq(msg, i + 1, i + Len(q)) = q

\* C4 as stated, taken for the requests most favourable to it (those that
\* pass the request checks): every request handled while retriever is None
\* ends in success with a prompt produced in direct mode, never in an error
\* result.
C4_AlwaysSuccessWithoutRetriever ==
    (started /\ retriever = None /\ Done /\ Precheck(data, openai_api_key) = "ok") =>
        /\ Succeeded
        /\ outcome["direct"] = "ok"

\* C4 amended: while retriever is None, a request that passes the request
\* checks (JSON body, non-empty instruction, OpenAI key set, text question)
\* makes the direct synthesis call and no other; it ends in success carrying
\* that call's stripped reply whenever the call returns, and in an error
\* result only when that call fails.  A request that fails a check ends in an
\* error result without any call.
C4_DirectModeWithoutRetriever ==
    (started /\ retriever = None /\ Done) =>
        IF Precheck(data, openai_api_key) = "ok"
        THEN /\ Len(calls) = 1
             /\ calls[1] = Call("direct", data.system_instruction, DirectMessage(RawQuestion))
             /\ response.success <=> outcome["direct"] = "ok"
             /\ response.success =>
                    response.status = 200 /\ response.prompt = Strip(content["direct"])
        ELSE /\ calls = <<>>
             /\ Errored

C4_Witness ==
    /\ started /\ retriever = None /\ Succeeded
    /\ outcome["direct"] = "ok"
    /\ response.prompt # <<>>

RetrievalPathFailed ==
    \/ outcome["refine"] = "fail"
    \/ outcome["retrieve"] \in {"timeout", "empty", "raised"}

\* C5 as stated, taken for requests that carry a JSON body: an error result
\* reaches the caller only when the OpenAI key is missing or a synthesis call
\* failed.
C5_ErrorOnlyFromKeyOrSynthesis ==
    (Errored /\ data.json) =>
        \/ ~Truthy(openai_api_key)
        \/ \E s \in SynthesisSites : outcome[s] = "fail"

\* C5 amended: an error result reaches the caller only when the request is
\* rejected by the request checks (no JSON body, empty instruction, missing
\* OpenAI key, non-text question) or the direct synthesis call of that
\* invocation failed; a failure confined to the retrieval path (refinement
\* failure, retrieval timeout, zero passages, retrieval exception) is
\* absorbed: the handler goes on to direct synthesis, and if that call
\* succeeds the result is success.
C5_RetrievalFailuresAbsorbed ==
    /\ Errored =>
        \/ Precheck(data, openai_api_key) # "ok"
        \/ \E s \in SynthesisDirectSites : outcome[s] = "fail"
    /\ (Done /\ RetrievalPathFailed) =>
        /\ Invoked("fallback")
        /\ outcome["fallback"] = "ok" => Succeeded

C5_Witness ==
    /\ Succeeded
    /\ outcome["retrieve"] = "timeout"
    /\ outcome["fallback"] = "ok"

\* The retrieval worker returned an empty list and the handler took it from
\* future.result within the bounded wait
RetrievedNothingInTime ==
    /\ outcome["retrieve"] \notin {"none", "timeout"}
    /\ future = "returned"
    /\ future_value = <<>>

\* C6: when retrieval completes within the bounded wait and returns zero
\* passages, the RAG synthesis call is never invoked in that invocation and
\* the handler goes to the direct synthesis call of the except block, which
\* has been invoked by the time the handler returns.
C6_ZeroPassagesFallBack ==
    RetrievedNothingInTime =>
        /\ ~Invoked("rag")
        /\ pc \in {"exit", "fallback", "respond", "done"}
        /\ pc \in {"respond", "done"} => Invoked("fallback")

C6_Witness ==
    /\ RetrievedNothingInTime
    /\ Done
    /\ Invoked("fallback")
    /\ ~Invoked("rag")

\* C7: when the refinement call fails, neither the retrieval call nor the RAG
\* synthesis call is ever invoked in that invocation, and the next call is
\* the direct synthesis call, whose system message is the instruction and
\* whose user message embeds the raw user_question.
C7_RefinementFailureGoesDirect ==
    outcome["refine"] = "fail" =>
        /\ ~Invoked("retrieve")
        /\ ~Invoked("rag")
        /\ future = "none"
        /\ pc \in {"fallback", "respond", "done"}
        /\ pc # "fallback" =>
            /\ Len(calls) = 2
            /\ calls[2].site = "fallback"
            /\ calls[2].system = data.system_instruction
            /\ Embeds(calls[2].input, RawQuestion)

C7_Witness ==
    /\ outcome["refine"] = "fail"
    /\ Succeeded
    /\ Embeds(calls[2].input, <<"q1">>)

\* C8: the retrieval call is issued only after the refinement call has
\* returned successfully, with the refiner's reply as its query; the RAG
\* synthesis call is issued only after a retrieval call whose non-empty
\* document list the handler received within the bounded wait.
C8_CallOrder ==
    /\ \A i \in CallsAt("retrieve") :
        /\ \E j \in CallsAt("refine") : j < i
        /\ outcome["refine"] = "ok"
        /\ calls[i].input = content["refine"]
    /\ \A i \in CallsAt("rag") :
        /\ \E j \in CallsAt("retrieve") : j < i
        /\ outcome["retrieve"] = "docs"
        /\ future = "returned"
        /\ future_value # <<>>
        /\ docs = future_value

C8_Witness ==
    /\ Len(calls) = 3
    /\ calls[1].site = "refine"
    /\ calls[2].site = "retrieve"
    /\ calls[3].site = "rag"
    /\ calls[2].input = <<"x", " ">>
    /\ Len(docs) = 2

\* C9: when retriever is None the refinement call, the retrieval call and
\* the RAG synthesis call are never invoked: an admitted request goes
\* straight to the direct synthesis call of the else branch.
C9_NoRetrieverGoesDirect ==
    (started /\ retriever = None) =>
        /\ \A i \in 1..Len(calls) : calls[i].site = "direct"
        /\ future = "none"
        /\ pc \in {"idle", "direct", "respond", "done"}
        /\ (Admitted /\ pc # "direct") => Invoked("direct")

C9_Witness ==
    /\ started /\ retriever = None
    /\ Done
    /\ Invoked("direct")

\* C10: when the OpenAI API key is unset (or empty), the handler returns an
\* error result at once: no refinement, retrieval or synthesis call is
\* invoked in that invocation.
C10_MissingKeyNoGeneration ==
    (started /\ ~Truthy(openai_api_key)) =>
        /\ calls = <<>>
        /\ future = "none"
        /\ pc \in {"idle", "done"}
        /\ Done => (Errored /\ response.status \in {400, 500})

C10_Witness ==
    /\ started /\ openai_api_key = None
    /\ retriever # None
    /\ Done
    /\ data.json /\ data.system_instruction # <<>>
    /\ response = ErrorResponse(500, "OpenAI API key not configured")


(***************************************************************************)
(* Start-up and module-level state                                         *)
(***************************************************************************)
\* C11 as stated: a process whose OpenAI key (the embedding provider's
\* credential) is missing at start-up raises during start-up and never
\* serves a request.
C11_MissingKeyStopsStartup ==
    (pc # "boot" /\ ~Truthy(openai_api_key)) =>
        /\ pc # "done"
        /\ response = NoResponse

\* C11 amended: when the OpenAI key is missing at start-up the module body
\* logs the error and raises nothing: the process comes up and serves
\* requests, and every generate_prompt request it serves is answered with an
\* error result without any refinement, retrieval or synthesis call.
C11_MissingKeyReportedPerRequest ==
    (pc # "boot" /\ ~Truthy(openai_api_key)) =>
        /\ started
        /\ pc \in {"idle", "done"}
        /\ calls = <<>>
        /\ Done => (Errored /\ response.status \in {400, 500})

C11_Witness ==
    /\ started /\ openai_api_key = None
    /\ Done
    /\ data.json /\ data.system_instruction # <<>>
    /\ response.status = 500
    /\ response.error = "OpenAI API key not configured"


(***************************************************************************)
(* Context block and results                                               *)
(***************************************************************************)
\* The context block inside the user message of a RAG synthesis call: what
\* lies between the heading and the "User Request:" line
ContextBlockOf(msg, q) == SubSeq(msg, 2, Len(msg) - Len(q) - 2)

\* Tokens taken by the first k passages of ds and the separators after them
RECURSIVE OffsetOf(_, _)
OffsetOf(ds, k) ==
    IF k = 0 THEN 0 ELSE OffsetOf(ds, k - 1) + Len(ds[k].page_content) + 1

\* block holds the contents of ds, each once, in the order of ds, any two
\* neighbours separated by one blank line, and nothing else
IsBlankLineJoin(block, ds) ==
    /\ Len(block) = OffsetOf(ds, Len(ds)) - 1
    /\ \A k \in 1..Len(ds) :
        LET from == OffsetOf(ds, k - 1)
            p == ds[k].page_content
        IN  /\ SubSeq(block, from + 1, from + Len(p)) = p
            /\ k < Len(ds) => block[from + Len(p) + 1] = "\n\n"

\* C12: when retrieval returns a non-empty ordered list of passages, the
\* user message of the RAG synthesis call holds, between its heading and the
\* user request, a context block that is exactly the passages' contents joined
\* by a blank line: every retrieved passage once, in the order the retriever
\* returned them.
C12_ContextIsRankedJoin ==
    \A i \in CallsAt("rag") :
        LET msg == calls[i].input
            block == ContextBlockOf(msg, RawQuestion)
        IN  /\ future = "returned" /\ future_value # <<>>
            /\ msg[1] = "Retrieved High-Yield Medical Context:"
            /\ msg[Len(block) + 2] = "User Request:"
            /\ IsBlankLineJoin(block, future_value)

C12_Witness ==
    /\ Invoked("rag")
    /\ Len(future_value) = 3
    /\ future_value[1].page_content = <<"p2">>
    /\ future_value[2].page_content = <<"p1">>
    /\ ContextBlockOf(calls[3].input, RawQuestion)
            = <<"p2", "\n\n", "p1", "\n\n", "p1">>


\* The request was admitted and every collaborator on the RAG path did its
\* part: refinement returned, retrieval returned at least one passage within
\* the bounded wait, and the RAG synthesis call returned a reply
HealthyRagRun ==
    /\ Admitted
    /\ outcome["refine"] = "ok"
    /\ outcome["retrieve"] = "docs"
    /\ outcome["rag"] = "ok"

\* C13: a request with a non-empty instruction and a healthy retrieval
\* backend (refinement succeeds, retrieval returns at least one passage within
\* the bounded wait, the language-model call returns) ends in success with a
\* non-empty prompt produced by the RAG synthesis call.
C13_HealthyRagGivesNonEmptyPrompt ==
    (Done /\ HealthyRagRun) =>
        /\ Succeeded
        /\ response.prompt = Strip(content["rag"])
        /\ response.prompt # <<>>


\* The request carries no usable instruction
NoInstruction == ~data.json \/ data.system_instruction = <<>>

\* C17: a request whose instruction is missing or empty is rejected with an
\* error result whatever the OpenAI key, llm and retriever are, and no
\* refinement, retrieval or synthesis call is invoked for it; when the request
\* has a JSON body the result is the 400 "System instruction is required".
C17_EmptyInstructionRejected ==
    (started /\ pc # "idle" /\ NoInstruction) =>
        /\ Done
        /\ Errored
        /\ calls = <<>>
        /\ future = "none"
        /\ data.json => response = ErrorResponse(400, "System instruction is required")

C17_Witness ==
    /\ Done /\ data.json /\ data.system_instruction = <<>>
    /\ openai_api_key = None
    /\ retriever # None
    /\ response.status = 400

\* C18: in one invocation the refinement call, the retrieval call, the RAG
\* synthesis call and the direct synthesis call are each invoked at most
\* once, and a failed direct synthesis call ends the invocation with an error
\* result: it is the last call.
C18_NoRetry ==
    /\ \A s \in {"refine", "retrieve", "rag"} : Cardinality(CallsAt(s)) <= 1
    /\ Cardinality(CallsAt("fallback") \cup CallsAt("direct")) <= 1
    /\ \A s \in SynthesisDirectSites :
        outcome[s] = "fail" =>
            /\ Errored
            /\ response.status = 500
            /\ calls[Len(calls)].site = s

C18_Witness ==
    /\ Errored
    /\ llm # None
    /\ outcome["rag"] = "fail"
    /\ outcome["fallback"] = "fail"
    /\ Len(calls) = 4


RagStateConsistent ==
    retriever # None =>
        /\ vectorstore # None
        /\ mongo_client # None
        /\ doc_count > 0

\* C19: after start-up, however its steps went, retriever is set only if
\* vectorstore and mongo_client are both set and the collection was non-empty
\* at start-up; if the initialization raised, retriever, vectorstore and
\* mongo_client are all None; and no step of a request handler (/health,
\* /generate-prompt) changes the three afterwards.
C19_ModuleStateAfterStartup ==
    /\ [](started => RagStateConsistent)
    /\ []((started /\ init_raised) =>
            (retriever = None /\ vectorstore = None /\ mongo_client = None))
    /\ [][started => UNCHANGED <<vectorstore, retriever, mongo_client>>]_vars

C19_Witness ==
    /\ started /\ init_raised
    /\ doc_count = 1
    /\ health_status # NoHealth
    /\ ~health_status.mongodb_connected
    /\ health_status.vectorstore_doc_count = 0


(***************************************************************************)
(* Properties of concurrent generate_prompt invocations                    *)
(***************************************************************************)
ThreadDone(h) == h.pc = "done"
ThreadSucceeded(h) == ThreadDone(h) /\ h.response.status = 200 /\ h.response.success
SitesOf(h) == [i \in 1..Len(h.calls) |-> h.calls[i].site]

\* The path that produced a successful result: the RAG synthesis call, or
\* a direct synthesis call (else branch or except block)
PathOf(h) == IF h.outcome["rag"] = "ok" THEN "rag" ELSE "direct"

\* C14: a successful result tells which path produced it.  Whatever form the
\* marker takes, two successful results that are equal as results must then
\* come from the same path.
C14_ResultTellsPath ==
    \A a, b \in Threads :
        (/\ ThreadSucceeded(threads[a])
         /\ ThreadSucceeded(threads[b])
         /\ threads[a].response = threads[b].response)
            => PathOf(threads[a]) = PathOf(threads[b])

IsPrefix(s, t) == Len(s) <= Len(t) /\ SubSeq(t, 1, Len(s)) = s

\* The stubs behaved alike for two invocations: at every call site both have
\* an outcome for, the outcome and what the collaborator returned are equal.
SameStubOutcomes(g, h) ==
    \A s \in Sites :
        (g.outcome[s] # "none" /\ h.outcome[s] # "none") =>
            /\ g.outcome[s] = h.outcome[s]
            /\ g.content[s] = h.content[s]
            /\ (s = "retrieve" /\ g.outcome[s] = "docs") => g.docs = h.docs

SameRun(g, h) == g.data = h.data /\ SameStubOutcomes(g, h)

\* C15: of two invocations served by the same process with the same request
\* and the same stub outcomes, neither makes a collaborator call the other
\* does not make at the same position with the same arguments; once both
\* have returned they have made the same calls, taken the same path and
\* returned the same result.
C15_ControlFlowDeterministic ==
    \A a, b \in Threads :
        SameRun(threads[a], threads[b]) =>
            /\ \/ IsPrefix(threads[a].calls, threads[b].calls)
               \/ IsPrefix(threads[b].calls, threads[a].calls)
            /\ (ThreadDone(threads[a]) /\ ThreadDone(threads[b])) =>
                /\ threads[a].calls = threads[b].calls
                /\ threads[a].response = threads[b].response
                /\ PathOf(threads[a]) = PathOf(threads[b])

C15_Witness ==
    /\ SameRun(threads["t1"], threads["t2"])
    /\ ThreadSucceeded(threads["t1"]) /\ ThreadSucceeded(threads["t2"])
    /\ SitesOf(threads["t1"]) = <<"refine", "retrieve", "rag">>
    /\ threads["t1"].calls = threads["t2"].calls
    /\ threads["t1"].response.prompt # <<>>

\* The call sites the code visits for a request, from the request, the
\* module-level configuration and the outcomes of the invocation's own calls
ExpectedSites(h) ==
    IF Precheck(h.data, openai_api_key) # "ok" THEN <<>>
    ELSE IF retriever = None THEN <<"direct">>
    ELSE IF h.outcome["refine"] # "ok" THEN <<"refine", "fallback">>
    ELSE IF h.outcome["retrieve"] # "docs" THEN <<"refine", "retrieve", "fallback">>
    ELSE IF h.outcome["rag"] = "ok" THEN <<"refine", "retrieve", "rag">>
    ELSE <<"refine", "retrieve", "rag", "fallback">>

ExpectedResponse(h) ==
    LET sites == ExpectedSites(h)
    IN  IF sites = <<>> THEN PrecheckResponse(Precheck(h.data, openai_api_key))
        ELSE IF h.outcome[sites[Len(sites)]] = "ok"
        THEN SuccessResponse(Strip(h.content[sites[Len(sites)]]))
        ELSE ErrorResponse(500, "Error generating prompt")

\* C16: under every interleaving of two invocations, the calls an invocation
\* has made and the result it returns are those its own request and its own
\* collaborator outcomes give under the start-up configuration; a step of
\* one invocation changes nothing of the other, and after start-up no step
\* changes a module-level name.
C16_InvocationsIndependent ==
    /\ [](\A t \in Threads :
            ThreadDone(threads[t]) =>
                /\ SitesOf(threads[t]) = ExpectedSites(threads[t])
                /\ threads[t].response = ExpectedResponse(threads[t]))
    /\ [][/\ \A t, u \in Threads :
                (threads'[t] # threads[t] /\ u # t) => threads'[u] = threads[u]
          /\ started => UNCHANGED <<openai_api_key, llm, vectorstore, retriever,
                                    mongo_client, google_api_key, gemini_client,
                                    doc_count>>]_vars

C16_Witness ==
    /\ ThreadSucceeded(threads["t1"])
    /\ PathOf(threads["t1"]) = "rag"
    /\ threads["t2"].pc = "exit"
    /\ threads["t2"].outcome["retrieve"] = "timeout"
    /\ threads["t2"].future = "running"
    /\ threads["t2"].data # threads["t1"].data


(***************************************************************************)
(* Properties of generate_image                                            *)
(***************************************************************************)
ImageSucceeded(h) == h.pc = "done" /\ h.response.status = 200 /\ h.response.success

\* C20: two generate_image requests that both return success return
\* distinct file names, and the file named in a success response holds the
\* image generated for that request.
C20_DistinctFilenames ==
    \A a, b \in ImageThreads :
        (a # b /\ ImageSucceeded(img[a]) /\ ImageSucceeded(img[b])) =>
            /\ img[a].response.filename # img[b].response.filename
            /\ files[img[a].response.filename] = a

=============================================================================
